---- MODULE Spec2Model ----
(***************************************************************************)
(* Drivetrain telemetry pipeline of filter.py: load_data, clean_data,      *)
(* detect_differential_load, detect_slip_events and the run of main.       *)
(*                                                                         *)
(* Numbers are fixed-point integers counting ten-thousandths (1.0 is       *)
(* Scale = 10000), one decimal digit finer than the 3 decimals the code    *)
(* rounds to, so that round(3) is a real conversion.  A missing value      *)
(* (pandas NaN, an empty CSV cell) is the sentinel NaN.                    *)
(***************************************************************************)
EXTENDS Integers, Sequences, FiniteSets, TLC

\* ------------------------------------------------------------------ numbers

Scale == 10000

NaN == -2000000000

\* Config (units of 1/Scale)
MINIMUM_RPM == 100000

MAXIMUM_RPM == 30000000

MAX_TIME_DIFFERENCE == 1250

TIME_BIN_SIZE == 1250

WINDOW_SIZE == 15

DEFAULT_DIFF_THRESHOLD == 1000000

DEFAULT_SLIP_THRESHOLD == 2000000

OUTPUT_CLEANED_DATA == "cleaned_wheel_data.csv"

OUTPUT_SLIP_DATA == "slip_events_report.csv"

OUTPUT_DIFFERENTIAL_LOAD_DATA == "differential_load_events.csv"

TIME_COLUMN == "time (s)"

RIGHT_REAR_RPM == "rr wheel speed (rpm)"

LEFT_REAR_RPM == "rl wheel speed (rpm)"

STEERING_COLUMN == "steering (degrees)"

Abs(x) == IF x < 0 THEN -x ELSE x

\* round(sum / n, 3): the nearest multiple of 0.001, a tie going to the even
\* thousandth (numpy's rint); NaN stays NaN.
RoundMean3(sum, n) ==
    LET d == 10 * n
        q == sum \div d
        r == sum % d
    IN  IF 2 * r < d THEN 10 * q
        ELSE IF 2 * r > d THEN 10 * (q + 1)
        ELSE IF q % 2 = 0 THEN 10 * q ELSE 10 * (q + 1)

Round3(x) == IF x = NaN THEN NaN ELSE RoundMean3(x, 1)

\* DataFrame.round(3) on the four sample columns
RoundRow(r) ==
    [time |-> Round3(r.time), rr |-> Round3(r.rr), rl |-> Round3(r.rl), st |-> Round3(r.st)]

RoundTable(tbl) == [i \in 1..Len(tbl) |-> RoundRow(tbl[i])]

\* ------------------------------------------------------------------ sorting

\* a sorts before or with b under sort_values (ascending, NaN last)
TimeLE(a, b) == b = NaN \/ (a # NaN /\ a <= b)

\* the rows of tbl whose position is the first with its time value
RECURSIVE KeepFirst(_, _)
KeepFirst(tbl, n) ==
    IF n = 0 THEN <<>>
    ELSE LET head == KeepFirst(tbl, n - 1)
         IN  IF \E i \in 1..(n - 1) : tbl[i].time = tbl[n].time
             THEN head ELSE Append(head, tbl[n])

\* sort_values(TIME_COLUMN): the default kind is quicksort, which is not
\* stable, so every time-ordered permutation of the rows is a possible result.
RECURSIVE SortFrom(_, _)
SortFrom(tbl, I) ==
    IF I = {} THEN {<<>>}
    ELSE LET first == {i \in I : \A j \in I : TimeLE(tbl[i].time, tbl[j].time)}
         IN  UNION {{<<tbl[i]>> \o s : s \in SortFrom(tbl, I \ {i})} : i \in first}

\* mutant: the sort followed by drop_duplicates(subset=TIME_COLUMN, keep='first')
SortValuesKeepFirst(tbl) ==
    {KeepFirst(s, Len(s)) : s \in SortFrom(tbl, 1..Len(tbl))}

SortValues(tbl) == SortFrom(tbl, 1..Len(tbl))

\* ------------------------------------------------------------------ binning

\* mutant: the bin is the nearest multiple of the bin size, not the one below
BinOfNearest(t) ==
    IF t = NaN THEN NaN
    ELSE ((t + (TIME_BIN_SIZE \div 2)) \div TIME_BIN_SIZE) * TIME_BIN_SIZE

\* (time // TIME_BIN_SIZE) * TIME_BIN_SIZE : floor division, NaN stays NaN
BinOf(t) == IF t = NaN THEN NaN ELSE (t \div TIME_BIN_SIZE) * TIME_BIN_SIZE

RECURSIVE SumOver(_, _, _)
SumOver(tbl, col, I) ==
    IF I = {} THEN 0
    ELSE LET i == CHOOSE k \in I : TRUE
         IN  tbl[i][col] + SumOver(tbl, col, I \ {i})

\* mean() of one column over the rows I of a group (NaN cells skipped; a group
\* with no value gives NaN), then round(3)
GroupMean(tbl, col, I) ==
    LET V == {i \in I : tbl[i][col] # NaN}
    IN  IF V = {} THEN NaN ELSE RoundMean3(SumOver(tbl, col, V), Cardinality(V))

RECURSIVE SortedKeys(_)
SortedKeys(K) ==
    IF K = {} THEN <<>>
    ELSE LET m == CHOOSE k \in K : \A j \in K : k <= j
         IN  <<m>> \o SortedKeys(K \ {m})

\* groupby(TIME_COLUMN, as_index=False).mean().round(3) after the time column
\* was replaced by its bin: one row per key, keys ascending, NaN keys dropped.
GroupByMean(tbl) ==
    LET keys == SortedKeys({BinOf(tbl[i].time) : i \in {j \in 1..Len(tbl) : tbl[j].time # NaN}})
        grp(k) == {i \in 1..Len(tbl) : BinOf(tbl[i].time) = k}
    IN  [n \in 1..Len(keys) |->
            [time |-> Round3(keys[n]),
             rr   |-> GroupMean(tbl, "rr", grp(keys[n])),
             rl   |-> GroupMean(tbl, "rl", grp(keys[n])),
             st   |-> GroupMean(tbl, "st", grp(keys[n]))]]

\* the rows of tbl at the positions I, in table order (boolean-mask indexing)
RowsAt(tbl, I) ==
    LET ks == SortedKeys(I)
    IN  [n \in 1..Len(ks) |-> tbl[ks[n]]]

\* ------------------------------------------------------------------ clean_data

\* dropna(subset=[RIGHT_REAR_RPM, LEFT_REAR_RPM]); the cells are numbers or
\* NaN, which pd.to_numeric(errors='coerce') keeps as they are
DropNa(tbl) == RowsAt(tbl, {i \in 1..Len(tbl) : tbl[i].rr # NaN /\ tbl[i].rl # NaN})

\* mutant: between(lo, hi, inclusive='neither')
BetweenExclusive(x, lo, hi) == x # NaN /\ lo < x /\ x < hi

\* Series.between(lo, hi): both ends inclusive, NaN is not between
Between(x, lo, hi) == x # NaN /\ lo <= x /\ x <= hi

RangeFilter(tbl) ==
    RowsAt(tbl, {i \in 1..Len(tbl) :
                    /\ Between(tbl[i].rr, MINIMUM_RPM, MAXIMUM_RPM)
                    /\ Between(tbl[i].rl, MINIMUM_RPM, MAXIMUM_RPM)})

\* rolling(window=w, center=True): the window of row i ends offset rows after
\* it, offset = (w - 1) // 2, and holds w rows
WinLast(i, w) == i + ((w - 1) \div 2)

WinFirst(i, w) == WinLast(i, w) - w + 1

\* min_periods defaults to the window size: a window cut by an end of the
\* table gives NaN
WindowComplete(n, i, w) == WinFirst(i, w) >= 1 /\ WinLast(i, w) <= n

\* sum over the window of (x[j] - x[i]) : -w * (x[i] - rolling mean)
RECURSIVE DevSum(_, _, _, _, _)
DevSum(tbl, col, i, lo, hi) ==
    IF lo > hi THEN 0
    ELSE (tbl[lo][col] - tbl[i][col]) + DevSum(tbl, col, i, lo + 1, hi)

RECURSIVE DevSqSum(_, _, _, _, _)
DevSqSum(tbl, col, i, lo, hi) ==
    IF lo > hi THEN 0
    ELSE (tbl[lo][col] - tbl[i][col]) * (tbl[lo][col] - tbl[i][col])
            + DevSqSum(tbl, col, i, lo + 1, hi)

\* |x[i] - mean| / std <= z with std the sample deviation (ddof = 1) of the
\* window and .replace(0, 1).  With s = DevSum, q = w * DevSqSum - s^2:
\* |x[i] - mean| = |s| / w and std^2 = q / (w (w - 1)).  The deviation of a
\* window of one row is NaN (0 / 0), and so is the z-score: the comparison fails.
ZScoreWithin(tbl, col, i, w, z) ==
    /\ WindowComplete(Len(tbl), i, w)
    /\ w > 1
    /\ LET s == DevSum(tbl, col, i, WinFirst(i, w), WinLast(i, w))
           q == w * DevSqSum(tbl, col, i, WinFirst(i, w), WinLast(i, w)) - s * s
       IN  IF q = 0 THEN Abs(s) <= z * w * Scale
           ELSE s * s * (w - 1) <= z * z * w * q

ZScoreFilter(tbl, z, w) ==
    RowsAt(tbl, {i \in 1..Len(tbl) :
                    ZScoreWithin(tbl, "rr", i, w, z) /\ ZScoreWithin(tbl, "rl", i, w, z)})

\* mutant: the empty speed cells are filled (fillna) with the lowest valid
\* speed where the code drops their rows
clean_data_fillna(data, z, w) ==
    LET filled == [i \in 1..Len(data) |->
                      [data[i] EXCEPT !.rr = IF @ = NaN THEN MINIMUM_RPM ELSE @,
                                      !.rl = IF @ = NaN THEN MINIMUM_RPM ELSE @]]
        ranged == RangeFilter(filled)
    IN  RoundTable(IF z > 0 THEN ZScoreFilter(ranged, z, w) ELSE ranged)

\* the table clean_data returns
clean_data(data, z, w) ==
    LET ranged == RangeFilter(DropNa(data))
    IN  RoundTable(IF z > 0 THEN ZScoreFilter(ranged, z, w) ELSE ranged)

\* what clean_data leaves in the caller's table: the column assignment and
\* dropna(inplace=True) act on the object passed in, the later filters on copies
clean_data_inplace(data) == DropNa(data)

\* ------------------------------------------------------------------ detectors

\* (rr - rl).abs()
AbsDifference(r) == IF r.rr = NaN \/ r.rl = NaN THEN NaN ELSE Abs(r.rr - r.rl)

\* mutant: x >= t
ExceedsOrEqual(x, t) == x # NaN /\ x >= t

\* x > t on a column: NaN compares false
Exceeds(x, t) == x # NaN /\ x > t

detect_differential_load(data, threshold) ==
    LET hit == RowsAt(data, {i \in 1..Len(data) : Exceeds(AbsDifference(data[i]), threshold)})
    IN  [n \in 1..Len(hit) |->
            [time |-> Round3(hit[n].time), rr |-> Round3(hit[n].rr),
             rl |-> Round3(hit[n].rl), st |-> Round3(hit[n].st),
             difference |-> Round3(AbsDifference(hit[n]))]]

\* Series.diff() at row i (the first row has no predecessor: NaN)
DiffAt(tbl, col, i) ==
    IF i = 1 \/ tbl[i][col] = NaN \/ tbl[i - 1][col] = NaN THEN NaN
    ELSE tbl[i][col] - tbl[i - 1][col]

\* x.abs() > t, NaN compares false
AbsExceeds(x, t) == x # NaN /\ Abs(x) > t

\* mutant: x < t
StrictlyBelow(x, t) == x # NaN /\ x < t

\* x <= t, NaN compares false
AtMost(x, t) == x # NaN /\ x <= t

\* detect_slip_events on the table already sorted by time and reindexed
SlipRows(sorted, slip_threshold) ==
    LET gap(i) == Round3(DiffAt(sorted, "time", i))
        rrd(i) == Round3(DiffAt(sorted, "rr", i))
        rld(i) == Round3(DiffAt(sorted, "rl", i))
        hit == SortedKeys({i \in 1..Len(sorted) :
                    /\ AtMost(gap(i), MAX_TIME_DIFFERENCE)
                    /\ (AbsExceeds(rrd(i), slip_threshold) \/ AbsExceeds(rld(i), slip_threshold))})
    IN  [n \in 1..Len(hit) |->
            [time |-> Round3(sorted[hit[n]].time), rr |-> Round3(sorted[hit[n]].rr),
             rl |-> Round3(sorted[hit[n]].rl), st |-> Round3(sorted[hit[n]].st),
             time_gap |-> Round3(gap(hit[n])), rr_diff |-> Round3(rrd(hit[n])),
             rl_diff |-> Round3(rld(hit[n]))]]

detect_slip_events(data, slip_threshold) ==
    {SlipRows(s, slip_threshold) : s \in SortValues(data)}

\* ------------------------------------------------------------------ the run of main

VARIABLES
    pc,                 \* where main stands
    fileStatus,         \* the input file: "ok", "missing" or "unparsable"
    columns,            \* the column names of the input file
    csv,                \* the rows of the input file
    z_threshold, diff_threshold, slip_threshold,    \* the values get_user_input returned
    window_size,        \* clean_data's rolling window
    raw_data, averaged_data, cleaned_data, differential_data, slip_data,
    written             \* the output files written so far

vars == <<pc, fileStatus, columns, csv, z_threshold, diff_threshold, slip_threshold,
          window_size, raw_data, averaged_data, cleaned_data, differential_data,
          slip_data, written>>

\* bounds of the explored inputs
MaxRows == 3

MaxWindow == 3

RequiredColumns == {TIME_COLUMN, RIGHT_REAR_RPM, LEFT_REAR_RPM}

AllColumns == RequiredColumns \cup {STEERING_COLUMN}

Row(t, r, l, s) == [time |-> t, rr |-> r, rl |-> l, st |-> s]

\* rolling windows: odd sizes
Windows == {w \in 1..MaxWindow : w % 2 = 1}

\* a recording sampled faster than the bin, out of order, with repeated and
\* missing times and values of four decimals
LoaderRows ==
    {Row(t, r, 100000, 150004) : t \in {NaN, -500, 0, 1000}, r \in {100004, 100015}}

\* one sample per bin, speeds at and beyond both ends of the valid range,
\* empty cells, no steering column: the <<right, left>> speeds of a row
RangeSpeeds ==
    ({NaN, 99990, 100000, 30000000, 30000010} \X {100000})
        \cup ({100000} \X {NaN, 99990})

RangeTable(v) == [i \in 1..Len(v) |-> Row((i - 1) * TIME_BIN_SIZE, v[i][1], v[i][2], NaN)]

\* one sample per bin with one bin missing after the second, speeds close
\* together around the lower end of the range
EventTime(i) == IF i <= 2 THEN (i - 1) * TIME_BIN_SIZE ELSE i * TIME_BIN_SIZE

EventSpeeds == {99990, 100000, 100010} \X {100000, 100020}

EventTable(v) == [i \in 1..Len(v) |-> Row(EventTime(i), v[i][1], v[i][2], 0)]

InitDerived ==
    /\ pc = "start"
    /\ raw_data = <<>> /\ averaged_data = <<>> /\ cleaned_data = <<>>
    /\ differential_data = <<>> /\ slip_data = <<>>
    /\ written = {}

InitDefaults ==
    /\ z_threshold = 0
    /\ diff_threshold = DEFAULT_DIFF_THRESHOLD
    /\ slip_threshold = DEFAULT_SLIP_THRESHOLD
    /\ window_size = WINDOW_SIZE

InitLoader ==
    /\ fileStatus = "ok" /\ columns = AllColumns
    /\ \E n \in 0..MaxRows : csv \in [1..n -> LoaderRows]
    /\ InitDefaults

InitRange ==
    /\ fileStatus = "ok" /\ columns = RequiredColumns
    /\ \E n \in 0..MaxRows : \E v \in [1..n -> RangeSpeeds] : csv = RangeTable(v)
    /\ InitDefaults

InitEvents ==
    /\ fileStatus = "ok" /\ columns = AllColumns
    /\ \E n \in 0..(MaxRows + 1) : \E v \in [1..n -> EventSpeeds] : csv = EventTable(v)
    /\ \E zw \in {<<0, WINDOW_SIZE>>} \cup ({1, 2} \X Windows) :
          z_threshold = zw[1] /\ window_size = zw[2]
    /\ diff_threshold = 10
    /\ slip_threshold = 10

InitBroken ==
    /\ \/ fileStatus \in {"missing", "unparsable"} /\ columns = AllColumns
       \/ fileStatus = "ok" /\ columns \in (SUBSET AllColumns) \ {AllColumns, RequiredColumns}
    /\ csv = <<>>
    /\ InitDefaults

Init == InitDerived /\ (InitLoader \/ InitRange \/ InitEvents \/ InitBroken)

UnchangedByLoad ==
    UNCHANGED <<fileStatus, columns, csv, z_threshold, diff_threshold, slip_threshold,
                window_size, cleaned_data, differential_data, slip_data, written>>

\* load_data raises FileNotFoundError; main logs it and returns
LoadFileNotFound ==
    /\ pc = "start" /\ fileStatus = "missing"
    /\ pc' = "load_failed"
    /\ UNCHANGED <<fileStatus, columns, csv, z_threshold, diff_threshold, slip_threshold,
                   window_size, raw_data, averaged_data, cleaned_data, differential_data,
                   slip_data, written>>

\* pd.read_csv raises; load_data re-raises; main logs it and returns
LoadParseError ==
    /\ pc = "start" /\ fileStatus = "unparsable"
    /\ pc' = "load_failed"
    /\ UNCHANGED <<fileStatus, columns, csv, z_threshold, diff_threshold, slip_threshold,
                   window_size, raw_data, averaged_data, cleaned_data, differential_data,
                   slip_data, written>>

\* mutant: a missing required column is only warned about, as the optional
\* one is, and the run goes on with what the file holds
LoadMissingColumnWarns ==
    /\ pc = "start" /\ fileStatus = "ok"
    /\ RequiredColumns \ columns # {}
    /\ raw_data' = RoundTable(csv)
    /\ averaged_data' = GroupByMean(csv)
    /\ pc' = "loaded"
    /\ UnchangedByLoad

\* a required column is absent: ValueError; main logs it and returns
LoadMissingColumn ==
    /\ pc = "start" /\ fileStatus = "ok"
    /\ RequiredColumns \ columns # {}
    /\ pc' = "load_failed"
    /\ UNCHANGED <<fileStatus, columns, csv, z_threshold, diff_threshold, slip_threshold,
                   window_size, raw_data, averaged_data, cleaned_data, differential_data,
                   slip_data, written>>

\* mutant: main goes on to the stages whatever load_data returned
load_data_no_empty_check ==
    /\ pc = "start" /\ fileStatus = "ok"
    /\ RequiredColumns \subseteq columns
    /\ \E sorted \in SortValues(csv) :
          /\ raw_data' = RoundTable(sorted)
          /\ averaged_data' = GroupByMean(sorted)
    /\ pc' = "loaded"
    /\ UnchangedByLoad

\* load_data returns (raw_data.round(3), averaged_data); main returns at once
\* when the averaged table is empty
load_data ==
    /\ pc = "start" /\ fileStatus = "ok"
    /\ RequiredColumns \subseteq columns
    /\ \E sorted \in SortValues(csv) :
          /\ raw_data' = RoundTable(sorted)
          /\ averaged_data' = GroupByMean(sorted)
    /\ pc' = IF averaged_data' = <<>> THEN "no_data" ELSE "loaded"
    /\ UnchangedByLoad

\* cleaned_data = clean_data(averaged_data, z_threshold); to_csv
Clean ==
    /\ pc = "loaded"
    /\ cleaned_data' = clean_data(averaged_data, z_threshold, window_size)
    /\ averaged_data' = clean_data_inplace(averaged_data)
    /\ written' = written \cup {OUTPUT_CLEANED_DATA}
    /\ pc' = "cleaned"
    /\ UNCHANGED <<fileStatus, columns, csv, z_threshold, diff_threshold, slip_threshold,
                   window_size, raw_data, differential_data, slip_data>>

\* differential_data = detect_differential_load(cleaned_data, diff_threshold); to_csv
DifferentialLoad ==
    /\ pc = "cleaned"
    /\ differential_data' = detect_differential_load(cleaned_data, diff_threshold)
    /\ written' = written \cup {OUTPUT_DIFFERENTIAL_LOAD_DATA}
    /\ pc' = "differential"
    /\ UNCHANGED <<fileStatus, columns, csv, z_threshold, diff_threshold, slip_threshold,
                   window_size, raw_data, averaged_data, cleaned_data, slip_data>>

\* slip_data = detect_slip_events(cleaned_data, slip_threshold); to_csv
SlipEvents ==
    /\ pc = "differential"
    /\ slip_data' \in detect_slip_events(cleaned_data, slip_threshold)
    /\ written' = written \cup {OUTPUT_SLIP_DATA}
    /\ pc' = "slip"
    /\ UNCHANGED <<fileStatus, columns, csv, z_threshold, diff_threshold, slip_threshold,
                   window_size, raw_data, averaged_data, cleaned_data, differential_data>>

\* plot_all_subplots only reads the tables; main ends
Plot ==
    /\ pc = "slip"
    /\ pc' = "done"
    /\ UNCHANGED <<fileStatus, columns, csv, z_threshold, diff_threshold, slip_threshold,
                   window_size, raw_data, averaged_data, cleaned_data, differential_data,
                   slip_data, written>>

Next ==
    \/ LoadFileNotFound
    \/ LoadParseError
    \/ LoadMissingColumn
    \/ load_data
    \/ Clean
    \/ DifferentialLoad
    \/ SlipEvents
    \/ Plot

Spec == Init /\ [][Next]_vars

\* ------------------------------------------------------------------ properties

\* a is b with some rows left out: same rows, same order, none twice
RECURSIVE SubseqFrom(_, _, _, _)
SubseqFrom(a, b, i, j) ==
    IF i > Len(a) THEN TRUE
    ELSE IF j > Len(b) THEN FALSE
    ELSE IF a[i] = b[j] THEN SubseqFrom(a, b, i + 1, j + 1)
    ELSE SubseqFrom(a, b, i, j + 1)

IsSubsequence(a, b) == SubseqFrom(a, b, 1, 1)

StrictlyAscending(tbl) == \A i \in 1..(Len(tbl) - 1) : tbl[i].time < tbl[i + 1].time

Sample(r) == [time |-> r.time, rr |-> r.rr, rl |-> r.rl, st |-> r.st]

\* C1: the table clean_data returns is an order-preserving subsequence of the
\* table it was given: every returned row is a row of the input with the same
\* field values, none added, none twice, none out of order (any z, any window).
C1_CleanedIsSubsequence ==
    [][pc = "loaded" => IsSubsequence(cleaned_data', averaged_data)]_vars

\* C1 witness: a z-score run over four valid rows that dropped the two edge
\* rows and one of the two interior rows and kept the other
C1_Witness ==
    /\ pc = "cleaned" /\ z_threshold = 1 /\ window_size = 3
    /\ Len(averaged_data) = 4
    /\ \A i \in 1..4 : Between(averaged_data[i].rr, MINIMUM_RPM, MAXIMUM_RPM)
    /\ Len(cleaned_data) = 1

RangeValid(r) ==
    /\ r.rr # NaN /\ r.rl # NaN
    /\ MINIMUM_RPM <= r.rr /\ r.rr <= MAXIMUM_RPM
    /\ MINIMUM_RPM <= r.rl /\ r.rl <= MAXIMUM_RPM

\* C2: with zThreshold = 0 clean_data returns exactly the input rows whose two
\* speeds are numeric and lie in [minRpm, maxRpm], both ends included; no row
\* is dropped for an incomplete rolling window.
C2_ZeroThresholdIsRangeFilter ==
    [][(pc = "loaded" /\ z_threshold = 0)
          => cleaned_data' = SelectSeq(averaged_data, RangeValid)]_vars

\* C2 witness: a run without z-score that kept a row at minRpm and a row at
\* maxRpm as first and last rows and dropped another row
C2_Witness ==
    /\ pc = "cleaned" /\ z_threshold = 0
    /\ Len(cleaned_data) >= 2 /\ Len(cleaned_data) < Len(csv)
    /\ cleaned_data[1].rr = MINIMUM_RPM
    /\ cleaned_data[Len(cleaned_data)].rr = MAXIMUM_RPM

ThresholdSamples == {0, 10, 20, DEFAULT_DIFF_THRESHOLD}

C3_Over(r) == Abs(r.rr - r.rl) > diff_threshold

\* C3: detect_differential_load returns exactly the rows with
\* |rightSpeed - leftSpeed| > T (strictly), in input order, each carrying
\* difference = |rightSpeed - leftSpeed|; a larger T gives a subset of what a
\* smaller T gives, and no row over T gives the empty table.
C3_DifferentialExactlyOverThreshold ==
    pc \in {"differential", "slip", "done"} =>
        LET hits == SelectSeq(cleaned_data, C3_Over)
        IN  /\ Len(differential_data) = Len(hits)
            /\ \A n \in 1..Len(hits) :
                  /\ Sample(differential_data[n]) = hits[n]
                  /\ differential_data[n].difference = Abs(hits[n].rr - hits[n].rl)
                  /\ differential_data[n].difference > diff_threshold
            /\ ((\A i \in 1..Len(cleaned_data) : ~C3_Over(cleaned_data[i]))
                    => differential_data = <<>>)
            /\ \A t1, t2 \in ThresholdSamples :
                  t1 <= t2 => IsSubsequence(detect_differential_load(cleaned_data, t2),
                                            detect_differential_load(cleaned_data, t1))

\* C3 witness: a row over the threshold was returned and a row whose
\* difference equals the threshold was not
C3_Witness ==
    /\ pc = "differential"
    /\ differential_data # <<>>
    /\ \E i \in 1..Len(cleaned_data) :
          Abs(cleaned_data[i].rr - cleaned_data[i].rl) = diff_threshold

C4_Flagged(i) ==
    /\ i > 1
    /\ cleaned_data[i].time - cleaned_data[i - 1].time <= MAX_TIME_DIFFERENCE
    /\ \/ Abs(cleaned_data[i].rr - cleaned_data[i - 1].rr) > slip_threshold
       \/ Abs(cleaned_data[i].rl - cleaned_data[i - 1].rl) > slip_threshold

\* C4: detect_slip_events returns row i of its time-sorted input exactly when
\* i > 0, time[i] - time[i-1] <= maxTimeGap and one of the two speed deltas
\* from row i-1 exceeds the threshold in magnitude: a gap equal to maxTimeGap
\* is eligible, a delta equal to the threshold is not, the first row never is.
C4_SlipExactlyFlaggedRows ==
    pc \in {"slip", "done"} =>
        LET flagged == SortedKeys({i \in 1..Len(cleaned_data) : C4_Flagged(i)})
        IN  /\ StrictlyAscending(cleaned_data)
            /\ Len(slip_data) = Len(flagged)
            /\ \A n \in 1..Len(flagged) :
                  LET i == flagged[n]
                  IN  /\ Sample(slip_data[n]) = cleaned_data[i]
                      /\ slip_data[n].time_gap = cleaned_data[i].time - cleaned_data[i - 1].time
                      /\ slip_data[n].rr_diff = cleaned_data[i].rr - cleaned_data[i - 1].rr
                      /\ slip_data[n].rl_diff = cleaned_data[i].rl - cleaned_data[i - 1].rl
            /\ (cleaned_data # <<>> =>
                   \A n \in 1..Len(slip_data) : slip_data[n].time # cleaned_data[1].time)

\* C4 witness: a row one full maxTimeGap after its predecessor was flagged, a
\* row whose only delta equals the threshold was not, and a row with a jump
\* after a longer gap was not
C4_Witness ==
    /\ pc = "slip"
    /\ \E n \in 1..Len(slip_data) : slip_data[n].time_gap = MAX_TIME_DIFFERENCE
    /\ \E i \in 2..Len(cleaned_data) :
          /\ cleaned_data[i].time - cleaned_data[i - 1].time <= MAX_TIME_DIFFERENCE
          /\ Abs(cleaned_data[i].rr - cleaned_data[i - 1].rr) = slip_threshold
          /\ cleaned_data[i].rl = cleaned_data[i - 1].rl
    /\ \E i \in 2..Len(cleaned_data) :
          /\ cleaned_data[i].time - cleaned_data[i - 1].time > MAX_TIME_DIFFERENCE
          /\ Abs(cleaned_data[i].rl - cleaned_data[i - 1].rl) > slip_threshold

\* the input rows of the half-open bucket [b, b + TIME_BIN_SIZE)
C5_Bucket(b) ==
    {i \in 1..Len(csv) : csv[i].time # NaN /\ b <= csv[i].time /\ csv[i].time < b + TIME_BIN_SIZE}

\* v is the average of the column over the rows I (empty cells aside), as the
\* table stores it: the thousandth nearest to sum / count
C5_IsAverage(v, col, I) ==
    LET V == {i \in I : csv[i][col] # NaN}
        n == Cardinality(V)
    IN  IF V = {} THEN v = NaN
        ELSE /\ v # NaN
             /\ v % 10 = 0
             /\ 2 * Abs(n * v - SumOver(csv, col, V)) <= 10 * n

\* C5: the binned view has one row per non-empty bucket
\* floor(time / binWidth) * binWidth, its times are distinct and strictly
\* ascending, each numeric field is the average (stored with 3 decimals) of the
\* input rows with bucketStart <= time < bucketStart + binWidth, and binning
\* the binned view again gives the same table.
C5_BinnedViewIsBucketAverages ==
    pc \in {"loaded", "no_data"} =>
        /\ StrictlyAscending(averaged_data)
        /\ \A n \in 1..Len(averaged_data) :
              LET b == averaged_data[n].time
              IN  /\ b # NaN /\ b % TIME_BIN_SIZE = 0
                  /\ C5_Bucket(b) # {}
                  /\ C5_IsAverage(averaged_data[n].rr, "rr", C5_Bucket(b))
                  /\ C5_IsAverage(averaged_data[n].rl, "rl", C5_Bucket(b))
                  /\ C5_IsAverage(averaged_data[n].st, "st", C5_Bucket(b))
        /\ \A i \in 1..Len(csv) :
              csv[i].time # NaN =>
                  \E n \in 1..Len(averaged_data) : i \in C5_Bucket(averaged_data[n].time)
        /\ GroupByMean(averaged_data) = averaged_data

\* C5 witness: two rows of different speeds were averaged into one bucket
\* (10.0004 and 10.0015 give 10.001) and another bucket holds a row too
C5_Witness ==
    /\ pc = "loaded"
    /\ Len(averaged_data) >= 2 /\ Len(averaged_data) < Len(csv)
    /\ \E n \in 1..Len(averaged_data) :
          /\ averaged_data[n].rr = 100010
          /\ Cardinality(C5_Bucket(averaged_data[n].time)) = 2

C6_Count(tbl, r) == Cardinality({i \in 1..Len(tbl) : tbl[i] = r})

C6_TimeSorted(tbl) == \A i \in 1..(Len(tbl) - 1) : TimeLE(tbl[i].time, tbl[i + 1].time)

C7_Fatal == fileStatus # "ok" \/ RequiredColumns \ columns # {}

\* C7: a run whose load fails fatally (file not found, unparsable content, a
\* required column absent) ends with none of the three output files written;
\* a file is written only after load_data returned; a missing steering column
\* alone never aborts the run.
C7_NoOutputAfterFatalLoad ==
    /\ C7_Fatal => (written = {} /\ pc \in {"start", "load_failed"})
    /\ pc = "load_failed" => (C7_Fatal /\ written = {})
    /\ written # {} => (~C7_Fatal /\ pc \in {"cleaned", "differential", "slip", "done"})

\* C7 witness: a run that ended on a missing required column of a readable file
C7_Witness ==
    /\ pc = "load_failed" /\ fileStatus = "ok"
    /\ STEERING_COLUMN \in columns

AllOutputs == {OUTPUT_CLEANED_DATA, OUTPUT_DIFFERENTIAL_LOAD_DATA, OUTPUT_SLIP_DATA}

\* C8 as claimed: a run whose loaded dataset is empty yields all three derived
\* tables, each of them empty.
C8_EmptyLoadYieldsThreeEmptyTables ==
    pc = "no_data" =>
        /\ written = AllOutputs
        /\ cleaned_data = <<>> /\ differential_data = <<>> /\ slip_data = <<>>

\* C8 amended: a run whose loaded (binned) dataset is empty returns right
\* after loading, without an exception: no stage runs on an empty binned
\* dataset, no derived table is computed and no output file is written.  When
\* it is the cleaned dataset that is empty, both event tables are empty and
\* all three files are written.
C8_EmptyLoadStopsTheRun ==
    /\ pc = "no_data" =>
          /\ averaged_data = <<>> /\ written = {}
          /\ cleaned_data = <<>> /\ differential_data = <<>> /\ slip_data = <<>>
    /\ pc = "loaded" => averaged_data # <<>>
    /\ (pc = "done" /\ cleaned_data = <<>>) =>
          (differential_data = <<>> /\ slip_data = <<>> /\ written = AllOutputs)

\* C8 witness: a file with rows, none of them with a time, loaded to an empty
\* binned dataset
C8_Witness == pc = "no_data" /\ csv # <<>>

\* the rows clean_data's rolling statistics run over
C9_Ranged == SelectSeq(averaged_data, RangeValid)

\* w * (x[j] - mean of the w rows centred on row i), speeds counted from minRpm
C9_Dev(col, i, j, w) ==
    LET h == (w - 1) \div 2
    IN  w * (C9_Ranged[j][col] - MINIMUM_RPM)
          - SumOver([k \in 1..Len(C9_Ranged) |->
                        [x |-> C9_Ranged[k][col] - MINIMUM_RPM]], "x", (i - h)..(i + h))

RECURSIVE C9_SumSq(_, _, _, _, _)
C9_SumSq(col, i, lo, hi, w) ==
    IF lo > hi THEN 0
    ELSE C9_Dev(col, i, lo, w) * C9_Dev(col, i, lo, w) + C9_SumSq(col, i, lo + 1, hi, w)

C9_Complete(i, w) ==
    LET h == (w - 1) \div 2
    IN  i - h >= 1 /\ i + h <= Len(C9_Ranged)

\* |value - mean| / s <= z, s the deviation of the window (over w - 1), 0 read as 1
C9_Within(col, i, w, z) ==
    LET h == (w - 1) \div 2
        ss == C9_SumSq(col, i, i - h, i + h, w)
    IN  IF ss = 0 THEN Abs(C9_Dev(col, i, i, w)) <= z * w * Scale
        ELSE C9_Dev(col, i, i, w) * C9_Dev(col, i, i, w) * (w - 1) <= z * z * ss

C9_Kept(i, w, z) ==
    C9_Complete(i, w) /\ C9_Within("rr", i, w, z) /\ C9_Within("rl", i, w, z)

\* C9: with zThreshold > 0 clean_data keeps a range-valid row exactly when its
\* centred window of rollingWindow range-valid rows is complete and, for both
\* speeds, |value - rollingMean| / s <= zThreshold, s the rolling standard
\* deviation with 0 replaced by 1; rows within (rollingWindow - 1) / 2 of an
\* end are dropped; on columns of constant value every interior row is kept.
C9_ZScoreKeepsRowsWithinThreshold ==
    [][(pc = "loaded" /\ z_threshold > 0) =>
          cleaned_data' = RowsAt(C9_Ranged,
                                 {i \in 1..Len(C9_Ranged) : C9_Kept(i, window_size, z_threshold)})]_vars

\* C10: every stage leaves the table it was given as it was: clean_data the
\* binned dataset, the two detectors the cleaned dataset.
C10_StagesLeaveInputUnchanged ==
    [][/\ pc = "loaded" => averaged_data' = averaged_data
       /\ pc \in {"cleaned", "differential"} => cleaned_data' = cleaned_data]_vars

====
